---- MODULE Spec2Model ----
(***************************************************************************)
(* Model of service/service.go: the git-lfs custom transfer agent that     *)
(* reads line-delimited JSON requests (Serve), moves objects to and from   *)
(* S3 (retrieve / store) and reports progress through progressTracker.     *)
(*                                                                         *)
(* Collaborators outside service.go are modelled by their contract:        *)
(*   - package api (SendResponse, SendProgress): one JSON line per call on *)
(*     the response writer; when the write fails no line is written and    *)
(*     the call returns the error.  The error is an input of the program   *)
(*     where the program reads it: after the `complete` line of retrieve   *)
(*     and of store.  Everywhere else the returned error is discarded, and *)
(*     the writer is taken to accept the line;                             *)
(*   - the S3 transfer manager: Downloader.Download with Concurrency 1     *)
(*     calls WriteAt(p, off) in increasing offset order, part by part, and *)
(*     re-issues a part from its first byte when the copy of the part's    *)
(*     body fails (its part-body retries); Uploader.Upload calls Read on   *)
(*     the body until EOF; either call may fail at any point;              *)
(*   - the OS: os.Create / os.Open / File.Write / File.Read.               *)
(***************************************************************************)
EXTENDS Integers, Sequences, FiniteSets, TLC

VARIABLES
    stdin,      \* the request lines of the run (fixed at start)
    pos,        \* number of lines the scanner has consumed
    pc,         \* Serve: "scan" | "call" | "returned" | "panicked"
    env,        \* names of the environment variables with a non-empty value
    fs,         \* local files: path -> content (sequence of bytes)
    stdout,     \* response lines written to the response writer
    respReq,    \* history: for each stdout line, the index of the request that wrote it
    stderr,     \* diagnostic lines (by kind)
    result,     \* history: request index -> how its transfer operation ended
    sess,       \* transfer operations in progress: request index -> session
    mgr,        \* goroutines of the transfer manager call in progress (SpecSink)
    writing     \* goroutine -> the line it is in the middle of writing to stdout (SpecSink)

vars == <<stdin, pos, pc, env, fs, stdout, respReq, stderr, result, sess, mgr, writing>>

----------------------------------------------------------------------------
(* Bounds of the model *)

MaxLines == 2       \* request lines per run
MaxTransfers == 1   \* download/upload lines per run
MaxSize == 2        \* bytes of an object (remote content, local file)
MaxThrough == 3     \* bytes one download passes through the wrapper, re-issued parts included
PartLen == 2        \* bytes per downloader part (the code's PartSize, scaled)
MaxParts == 3       \* parts of one object, where the goroutines of a transfer are modelled
MaxUploadWorkers == 2   \* worker goroutines of the uploader (its default concurrency, scaled)

\* d.Concurrency = 1
Concurrency == 1

----------------------------------------------------------------------------
(* Inputs *)

OidA == <<"a", "b", "c", "d", "e", "f">>
OidShort == <<"a", "b", "c">>
Oids == {OidA, OidShort}

Events == {"init", "terminate", "", "status"}

\* scans: scanner.Scan() returns the line.  It is FALSE for a line that
\* Scan() gives up on: one that does not fit the scanner's buffer (bufio's
\* default limit, 64 KiB; Serve sets no other), or one the reader fails on.
BadLine == [wellformed |-> FALSE, event |-> "", oid |-> <<>>, size |-> 0, scans |-> TRUE]

\* A well-formed init request padded beyond the limit of the scanner.
LongLine == [wellformed |-> TRUE, event |-> "init", oid |-> <<>>, size |-> 0, scans |-> FALSE]

ReqLine(e, o, s) == [wellformed |-> TRUE, event |-> e, oid |-> o, size |-> s, scans |-> TRUE]

Lines ==
    {BadLine, LongLine}
    \cup {ReqLine(e, <<>>, 0) : e \in Events}
    \cup {ReqLine(e, o, MaxSize) : e \in {"download", "upload"}, o \in Oids}

IsTransferLine(l) == l.wellformed /\ l.event \in {"download", "upload"}

Inputs ==
    {s \in UNION {[1..n -> Lines] : n \in 0..MaxLines} :
        Cardinality({i \in DOMAIN s : IsTransferLine(s[i])}) <= MaxTransfers}

\* The bytes of an object of S bytes: byte k has value k.
Content(S) == [k \in 1..S |-> k]

----------------------------------------------------------------------------
(* json.Unmarshal into api.Request: a line that is not JSON gives an error; *)
(* absent fields keep Go's zero values.                                     *)

Unmarshal(line) ==
    IF line.wellformed
    THEN [err |-> FALSE, Event |-> line.event, Oid |-> line.oid, Size |-> line.size]
    ELSE [err |-> TRUE, Event |-> "", Oid |-> <<>>, Size |-> 0]

requiredVars == <<"AWS_S3_ENDPOINT", "S3_BUCKET">>

\* checkEnvVars: TRUE when some required variable is unset or empty.
checkEnvVarsFails(required, e) == \E k \in DOMAIN required : required[k] \notin e

----------------------------------------------------------------------------
(* Response lines *)

NoError == [present |-> FALSE, code |-> 0]
ErrorCode(c) == [present |-> TRUE, code |-> c]
NoPath == <<>>

InitResponse(err) ==
    [type |-> "InitResponse", event |-> "", oid |-> <<>>, path |-> NoPath,
     bytesSoFar |-> 0, bytesSinceLast |-> 0, error |-> err]

ProgressResponse(oid, soFar, sinceLast) ==
    [type |-> "ProgressResponse", event |-> "progress", oid |-> oid, path |-> NoPath,
     bytesSoFar |-> soFar, bytesSinceLast |-> sinceLast, error |-> NoError]

TransferResponse(oid, path) ==
    [type |-> "TransferResponse", event |-> "complete", oid |-> oid, path |-> path,
     bytesSoFar |-> 0, bytesSinceLast |-> 0, error |-> NoError]

\* api.SendResponse / api.SendProgress: the lines one call adds to the writer.
SendResponse(resp) == <<resp>>

\* err = api.SendResponse(...): the lines the call adds when the write
\* succeeds (ok, err == nil) and when it fails (err != nil).
SendResponseErr(resp, ok) == IF ok THEN SendResponse(resp) ELSE <<>>
SendProgress(oid, soFar, sinceLast) == <<ProgressResponse(oid, soFar, sinceLast)>>

\* i copies of the request index, one per emitted line
Tags(lines, i) == [k \in 1..Len(lines) |-> i]

----------------------------------------------------------------------------
(* progressTracker and writerAtWrapper *)

\* Mutation of Processed: the counter is overwritten instead of advanced.
ProcessedOverwritten(bytesProcessed, n) == n

\* rw.bytesProcessed += int64(n)
Processed(bytesProcessed, n) == bytesProcessed + n

\* Lines a Read / WriteAt call of the tracker emits when the underlying call
\* returned n (with or without an error).
TrackerEmits(oid, bytesProcessed, n) ==
    IF n > 0 THEN SendProgress(oid, Processed(bytesProcessed, n), n) ELSE <<>>

TrackerCount(bytesProcessed, n) ==
    IF n > 0 THEN Processed(bytesProcessed, n) ELSE bytesProcessed

\* Mutation of TrackerReturns: the error of the underlying call is dropped.
TrackerReturnsNil(n, err) == [n |-> n, err |-> "nil"]

\* The bare `return` of Read / WriteAt: the named results n and err as the
\* underlying call set them.  err is "nil", "EOF" or "error".
TrackerReturns(n, err) == [n |-> n, err |-> err]

\* writerAtWrapper.WriteAt(p, off) = file.Write(p): the first n bytes of p go
\* to the file's write position (its end); off is not used.
WriteAtFile(content, p, off, n) == content \o SubSeq(p, 1, n)

\* ".git/lfs/objects/" + oid[:2] + "/" + oid[2:4] + "/" + oid
LocalPath(oid) == <<".git/lfs/objects", SubSeq(oid, 1, 2), SubSeq(oid, 3, 4), oid>>

\* oid[:2] and oid[2:4] panic when the string is shorter than 4 bytes.
SlicePanics(oid) == Len(oid) < 4

----------------------------------------------------------------------------
(* File system helpers *)

\* os.Open taken to succeed whatever the path (the error return ignored).
FileExistsUnchecked(path) == TRUE

FileExists(path) == path \in DOMAIN fs

\* os.Create: create or truncate
Created(path) == [p \in DOMAIN fs \cup {path} |-> IF p = path THEN <<>> ELSE fs[p]]

InitialFiles ==
    { <<>> } \cup { [p \in {LocalPath(OidA)} |-> Content(MaxSize)] }

----------------------------------------------------------------------------
(* Sessions *)

\* Mutation of TrackerStart: the counter starts at the announced size.
TrackerStartAtSize(req) == req.Size

\* &progressTracker{...} leaves bytesProcessed at its zero value: every
\* request gets a tracker of its own that counts from 0.
TrackerStart(req) == 0

Session(kind, req, S) ==
    [kind |-> kind, Oid |-> req.Oid, TotalSize |-> req.Size, path |-> LocalPath(req.Oid),
     bytesProcessed |-> TrackerStart(req),
     phase |-> "transfer",    \* "transfer" | "defer" (body done, deferred Sync/Close pending)
     remote |-> S,            \* download: size of the remote object
     cur |-> 0,               \* download: next offset the downloader writes; upload: read position
     failed |-> FALSE,        \* the last wrapper call returned an error to the manager
     eof |-> FALSE,           \* upload: the body returned io.EOF
     through |-> 0,           \* history: bytes the underlying stream accepted / returned
     uerr |-> "nil"]          \* history: error of the last underlying call

\* Mutation of PcAfterDispatch: the operation is started without waiting for it.
PcAfterDispatchAsync == "scan"

\* Serve calls retrieve / store synchronously: it is inside the call while
\* the operation runs.
PcAfterDispatch == "call"

\* No call of the transfer manager is in progress.
NoManager == [kind |-> "none"]

TypeOK ==
    /\ stdin \in Inputs
    /\ pos \in 0..Len(stdin)
    /\ pc \in {"scan", "call", "returned", "panicked"}
    /\ env \subseteq {"AWS_S3_ENDPOINT", "S3_BUCKET"}
    /\ Len(stdout) = Len(respReq)
    /\ DOMAIN sess \subseteq 1..pos
    /\ DOMAIN result \subseteq 1..pos

Init ==
    /\ stdin \in Inputs
    /\ pos = 0
    /\ pc = "scan"
    /\ env \in SUBSET {"AWS_S3_ENDPOINT", "S3_BUCKET"}
    /\ fs \in InitialFiles
    /\ stdout = <<>>
    /\ respReq = <<>>
    /\ stderr = <<>>
    /\ result = <<>>
    /\ sess = <<>>
    /\ mgr = NoManager
    /\ writing = <<>>

----------------------------------------------------------------------------
(* Control flow of Serve's loop body: where Serve is after a case.          *)
(* `return` after a decode error and after a failed init, `break scanner`   *)
(* on terminate; every other case falls out of the switch into the next     *)
(* iteration.                                                               *)

\* Mutations of ServePc: one case each leaves the switch the wrong way.
ServePcInitOkReturns(case) ==
    IF case \in {"decode_error", "init_error", "terminate", "init_ok"} THEN "returned" ELSE "scan"

ServePcInitErrorContinues(case) ==
    IF case \in {"decode_error", "terminate"} THEN "returned" ELSE "scan"

ServePcDecodeErrorContinues(case) ==
    IF case \in {"init_error", "terminate"} THEN "returned" ELSE "scan"

ServePcTerminateContinues(case) ==
    IF case \in {"decode_error", "init_error"} THEN "returned" ELSE "scan"

ServePcOtherReturns(case) ==
    IF case \in {"decode_error", "init_error", "terminate", "other"} THEN "returned" ELSE "scan"

ServePc(case) ==
    CASE case = "decode_error" -> "returned"
      [] case = "init_error"   -> "returned"
      [] case = "terminate"    -> "returned"
      [] OTHER                 -> "scan"

\* Mutation of FailureResponse: a failure is reported to the peer.
FailureResponseReported(oid) ==
    <<[type |-> "TransferResponse", event |-> "complete", oid |-> oid, path |-> <<>>,
       bytesSoFar |-> 0, bytesSinceLast |-> 0, error |-> [present |-> TRUE, code |-> 2]]>>

\* The error branches of retrieve and store log to stderr and return: they
\* send nothing to the response writer.
FailureResponse(oid) == <<>>

\* History record of a transfer operation that reached its end.
Ended(outcome, kind, oid, S, N, errLen) ==
    [outcome |-> outcome,      \* "ok" | "client" | "file" | "storage" | "panic"
     kind |-> kind, Oid |-> oid,
     remote |-> S,             \* download: size of the remote object
     through |-> N,            \* bytes the underlying stream accepted / returned
     outLen |-> Len(stdout),   \* lines on stdout when the outcome was decided
     errLen |-> errLen]        \* lines on stderr when the outcome was decided

Record(i, rec) ==
    result' = [j \in DOMAIN result \cup {i} |-> IF j = i THEN rec ELSE result[j]]

----------------------------------------------------------------------------
(* Serve: one loop iteration per action.  Every action below reads the next *)
(* line (scanner.Scan, json.Unmarshal) and carries out the whole case.      *)

\* scanner.Scan() returns true: there is a next line and the scanner takes it.
CanScan == pc = "scan" /\ pos < Len(stdin) /\ stdin[pos + 1].scans

NextReq == Unmarshal(stdin[pos + 1])

Log(msgs) == stderr' = stderr \o msgs

\* if err != nil { fmt.Fprintf(stderr, "Unable to send completion message: %v\n", err) }
CompletionLog(ok) == IF ok THEN <<>> ELSE <<"Unable to send completion message">>

Emit(lines, i) ==
    /\ stdout' = stdout \o lines
    /\ respReq' = respReq \o Tags(lines, i)

\* scanner.Scan() returns false: at the end of the input, or on a line it
\* gives up on (too long, read error).  The loop ends and Serve returns; the
\* scanner's error is not looked at, nothing is written, and the lines from
\* there on stay unread.
ServeEOF ==
    /\ pc = "scan"
    /\ pos < Len(stdin) => ~stdin[pos + 1].scans
    /\ pc' = "returned"
    /\ UNCHANGED <<mgr, writing, stdin, pos, env, fs, stdout, respReq, stderr, result, sess>>

ServeDecodeError ==
    /\ CanScan
    /\ NextReq.err
    /\ pos' = pos + 1
    /\ Log(<<"Error reading input">>)
    /\ pc' = ServePc("decode_error")
    /\ UNCHANGED <<mgr, writing, stdin, env, fs, stdout, respReq, result, sess>>

ServeInitFails ==
    /\ CanScan
    /\ ~NextReq.err
    /\ NextReq.Event = "init"
    /\ checkEnvVarsFails(requiredVars, env)
    /\ pos' = pos + 1
    /\ Emit(SendResponse(InitResponse(ErrorCode(1))), pos + 1)
    /\ pc' = ServePc("init_error")
    /\ UNCHANGED <<mgr, writing, stdin, env, fs, stderr, result, sess>>

ServeInitOk ==
    /\ CanScan
    /\ ~NextReq.err
    /\ NextReq.Event = "init"
    /\ ~checkEnvVarsFails(requiredVars, env)
    /\ pos' = pos + 1
    /\ Emit(SendResponse(InitResponse(NoError)), pos + 1)
    /\ pc' = ServePc("init_ok")
    /\ UNCHANGED <<mgr, writing, stdin, env, fs, stderr, result, sess>>

ServeTerminate ==
    /\ CanScan
    /\ ~NextReq.err
    /\ NextReq.Event = "terminate"
    /\ pos' = pos + 1
    /\ Log(<<"Terminating">>)
    /\ pc' = ServePc("terminate")
    /\ UNCHANGED <<mgr, writing, stdin, env, fs, stdout, respReq, result, sess>>

\* No case of the switch matches: nothing happens, the loop goes on.
ServeOther ==
    /\ CanScan
    /\ ~NextReq.err
    /\ NextReq.Event \notin {"init", "download", "upload", "terminate"}
    /\ pos' = pos + 1
    /\ pc' = ServePc("other")
    /\ UNCHANGED <<mgr, writing, stdin, env, fs, stdout, respReq, stderr, result, sess>>

----------------------------------------------------------------------------
(* retrieve, up to the call of downloader.Download *)

IsDownload == CanScan /\ ~NextReq.err /\ NextReq.Event = "download"

\* createS3Client returns an error (config.LoadDefaultConfig failed).
RetrieveClientError ==
    /\ IsDownload
    /\ pos' = pos + 1
    /\ Log(<<"Received download request", "Error creating client">>)
    /\ Emit(FailureResponse(NextReq.Oid), pos + 1)
    /\ Record(pos + 1, Ended("client", "download", NextReq.Oid, 0, 0, Len(stderr) + 1))
    /\ pc' = ServePc("download")
    /\ UNCHANGED <<mgr, writing, stdin, env, fs, sess>>

\* The client is built; slicing a short oid panics and unwinds Serve.
RetrievePanics ==
    /\ IsDownload
    /\ SlicePanics(NextReq.Oid)
    /\ pos' = pos + 1
    /\ Log(<<"Received download request">>)
    /\ Record(pos + 1, Ended("panic", "download", NextReq.Oid, 0, 0, Len(stderr) + 1))
    /\ pc' = "panicked"
    /\ UNCHANGED <<mgr, writing, stdin, env, fs, stdout, respReq, sess>>

\* os.Create fails (for instance the shard directory does not exist).
RetrieveCreateError ==
    /\ IsDownload
    /\ ~SlicePanics(NextReq.Oid)
    /\ pos' = pos + 1
    /\ Log(<<"Received download request", "Error creating file">>)
    /\ Emit(FailureResponse(NextReq.Oid), pos + 1)
    /\ Record(pos + 1, Ended("file", "download", NextReq.Oid, 0, 0, Len(stderr) + 1))
    /\ pc' = ServePc("download")
    /\ UNCHANGED <<mgr, writing, stdin, env, fs, sess>>

\* The file is created (or truncated) and the download starts; S is the size
\* of the object stored under the key.
RetrieveStarts ==
    /\ IsDownload
    /\ ~SlicePanics(NextReq.Oid)
    /\ \E S \in 0..MaxSize :
          sess' = [i \in DOMAIN sess \cup {pos + 1} |->
                      IF i = pos + 1 THEN Session("download", NextReq, S) ELSE sess[i]]
    /\ fs' = Created(LocalPath(NextReq.Oid))
    /\ pos' = pos + 1
    /\ Log(<<"Received download request">>)
    /\ pc' = PcAfterDispatch
    /\ UNCHANGED <<mgr, writing, stdin, env, stdout, respReq, result>>

----------------------------------------------------------------------------
(* store, up to the call of uploader.Upload *)

IsUpload == CanScan /\ ~NextReq.err /\ NextReq.Event = "upload"

StoreClientError ==
    /\ IsUpload
    /\ pos' = pos + 1
    /\ Log(<<"Received upload request", "Error creating client">>)
    /\ Emit(FailureResponse(NextReq.Oid), pos + 1)
    /\ Record(pos + 1, Ended("client", "upload", NextReq.Oid, 0, 0, Len(stderr) + 1))
    /\ pc' = ServePc("upload")
    /\ UNCHANGED <<mgr, writing, stdin, env, fs, sess>>

StorePanics ==
    /\ IsUpload
    /\ SlicePanics(NextReq.Oid)
    /\ pos' = pos + 1
    /\ Log(<<"Received upload request">>)
    /\ Record(pos + 1, Ended("panic", "upload", NextReq.Oid, 0, 0, Len(stderr) + 1))
    /\ pc' = "panicked"
    /\ UNCHANGED <<mgr, writing, stdin, env, fs, stdout, respReq, sess>>

\* os.Open fails: the file is absent.
StoreOpenError ==
    /\ IsUpload
    /\ ~SlicePanics(NextReq.Oid)
    /\ ~FileExists(LocalPath(NextReq.Oid))
    /\ pos' = pos + 1
    /\ Log(<<"Received upload request", "Error opening file">>)
    /\ Emit(FailureResponse(NextReq.Oid), pos + 1)
    /\ Record(pos + 1, Ended("file", "upload", NextReq.Oid, 0, 0, Len(stderr) + 1))
    /\ pc' = ServePc("upload")
    /\ UNCHANGED <<mgr, writing, stdin, env, fs, sess>>

StoreStarts ==
    /\ IsUpload
    /\ ~SlicePanics(NextReq.Oid)
    /\ FileExists(LocalPath(NextReq.Oid))
    /\ sess' = [i \in DOMAIN sess \cup {pos + 1} |->
                   IF i = pos + 1 THEN Session("upload", NextReq, 0) ELSE sess[i]]
    /\ pos' = pos + 1
    /\ Log(<<"Received upload request">>)
    /\ pc' = PcAfterDispatch
    /\ UNCHANGED <<mgr, writing, stdin, env, fs, stdout, respReq, result>>

----------------------------------------------------------------------------
(* downloader.Download(ctx, progressWriter, ...) with Concurrency = 1 *)

Downloading(i) ==
    /\ i \in DOMAIN sess
    /\ sess[i].kind = "download"
    /\ sess[i].phase = "transfer"

\* First byte offset of the part that holds offset c.
PartStart(c) == c - (c % PartLen)

\* Bytes the downloader may still hand over in one WriteAt call at offset c.
PartRoom(c, S) == IF PartStart(c) + PartLen < S THEN PartStart(c) + PartLen - c ELSE S - c

\* One call progressWriter.WriteAt(p, off): p is the next len bytes of the
\* object, off the downloader's offset.  file.Write takes n of them; n < len
\* comes with an error (short write).
DownloadWriteAt(i) ==
    /\ Downloading(i)
    /\ ~sess[i].failed
    /\ sess[i].cur < sess[i].remote
    /\ \E len \in 1..PartRoom(sess[i].cur, sess[i].remote) : \E n \in 0..len :
          LET s == sess[i]
              p == [k \in 1..len |-> s.cur + k]
              err == IF n < len THEN "error" ELSE "nil"
              ret == TrackerReturns(n, err)
          IN  /\ s.through + n <= MaxThrough
              /\ fs' = [fs EXCEPT ![s.path] = WriteAtFile(@, p, s.cur, n)]
              /\ Emit(TrackerEmits(s.Oid, s.bytesProcessed, n), i)
              /\ sess' = [sess EXCEPT ![i].bytesProcessed = TrackerCount(@, n),
                                      ![i].cur = @ + ret.n,
                                      ![i].through = @ + n,
                                      ![i].failed = (ret.err /= "nil"),
                                      ![i].uerr = err]
    /\ UNCHANGED <<mgr, writing, stdin, pos, pc, env, stderr, result>>

\* The copy of a part's body failed (the connection dropped, or WriteAt
\* returned an error): the downloader issues the part again from its start
\* (manager.Downloader: downloadChunk resets the chunk's cursor and repeats the
\* ranged GetObject, its part-body retries), so WriteAt is called again with
\* the offsets of the part.  The number of re-issues is not counted here; the
\* bytes they pass through the wrapper are capped by MaxThrough.
DownloadRetryPart(i) ==
    /\ Downloading(i)
    /\ sess[i].cur < sess[i].remote
    /\ sess[i].failed \/ sess[i].cur > PartStart(sess[i].cur)
    /\ sess' = [sess EXCEPT ![i].cur = PartStart(@),
                            ![i].failed = FALSE,
                            ![i].uerr = "nil"]
    /\ UNCHANGED <<mgr, writing, stdin, pos, pc, env, fs, stdout, respReq, stderr, result>>

\* Download returned an error (at any point: missing key, network, write error).
DownloadFails(i) ==
    /\ Downloading(i)
    /\ Log(<<"Error downloading file">>)
    /\ Emit(FailureResponse(sess[i].Oid), i)
    /\ Record(i, Ended("storage", "download", sess[i].Oid, sess[i].remote,
                       sess[i].through, Len(stderr)))
    /\ sess' = [sess EXCEPT ![i].phase = "defer"]
    /\ UNCHANGED <<mgr, writing, stdin, pos, pc, env, fs>>

\* Download returned nil: every part was written; retrieve sends `complete`.
\* When api.SendResponse returns an error the line is not on stdout and
\* retrieve logs the error; it returns either way.
DownloadSucceeds(i) ==
    /\ Downloading(i)
    /\ ~sess[i].failed
    /\ sess[i].cur = sess[i].remote
    /\ \E ok \in BOOLEAN :
          /\ Emit(SendResponseErr(TransferResponse(sess[i].Oid, sess[i].path), ok), i)
          /\ Log(CompletionLog(ok))
    /\ Record(i, Ended("ok", "download", sess[i].Oid, sess[i].remote,
                       sess[i].through, Len(stderr)))
    /\ sess' = [sess EXCEPT ![i].phase = "defer"]
    /\ UNCHANGED <<mgr, writing, stdin, pos, pc, env, fs>>

----------------------------------------------------------------------------
(* uploader.Upload(ctx, {Body: progressReader}) *)

Uploading(i) ==
    /\ i \in DOMAIN sess
    /\ sess[i].kind = "upload"
    /\ sess[i].phase = "transfer"

\* One call progressReader.Read(p): file.Read returns n > 0 bytes, or
\* (0, io.EOF) at the end of the file, or (0, err).
UploadRead(i) ==
    /\ Uploading(i)
    /\ ~sess[i].eof
    /\ ~sess[i].failed
    /\ LET s == sess[i]
           left == Len(fs[s.path]) - s.cur
       IN  \E n \in 0..left : \E ioerr \in BOOLEAN :
              /\ ioerr => n = 0
              /\ (~ioerr /\ n = 0) => left = 0
              /\ LET err == IF ioerr THEN "error" ELSE IF n = 0 THEN "EOF" ELSE "nil"
                     ret == TrackerReturns(n, err)
                 IN  /\ Emit(TrackerEmits(s.Oid, s.bytesProcessed, n), i)
                     /\ sess' = [sess EXCEPT ![i].bytesProcessed = TrackerCount(@, n),
                                             ![i].cur = @ + ret.n,
                                             ![i].through = @ + n,
                                             ![i].eof = (ret.err = "EOF"),
                                             ![i].failed = (ret.err = "error"),
                                             ![i].uerr = err]
    /\ UNCHANGED <<mgr, writing, stdin, pos, pc, env, fs, stderr, result>>

\* Upload returned an error (at any point: read error, network, storage).
UploadFails(i) ==
    /\ Uploading(i)
    /\ Log(<<"Error uploading file">>)
    /\ Emit(FailureResponse(sess[i].Oid), i)
    /\ Record(i, Ended("storage", "upload", sess[i].Oid, 0, sess[i].through, Len(stderr)))
    /\ sess' = [sess EXCEPT ![i].phase = "defer"]
    /\ UNCHANGED <<mgr, writing, stdin, pos, pc, env, fs>>

\* Upload returned nil: the body was read to EOF and stored; store sends
\* `complete` (without a path).  When api.SendResponse returns an error the
\* line is not on stdout and store logs the error; it returns either way.
UploadSucceeds(i) ==
    /\ Uploading(i)
    /\ sess[i].eof
    /\ \E ok \in BOOLEAN :
          /\ Emit(SendResponseErr(TransferResponse(sess[i].Oid, NoPath), ok), i)
          /\ Log(CompletionLog(ok))
    /\ Record(i, Ended("ok", "upload", sess[i].Oid, 0, sess[i].through, Len(stderr)))
    /\ sess' = [sess EXCEPT ![i].phase = "defer"]
    /\ UNCHANGED <<mgr, writing, stdin, pos, pc, env, fs>>

----------------------------------------------------------------------------
(* The deferred file.Sync(); file.Close() runs and retrieve / store returns *)
(* to Serve, which goes on to the next iteration of its loop.               *)

OperationReturns(i) ==
    /\ i \in DOMAIN sess
    /\ sess[i].phase = "defer"
    /\ sess' = [j \in DOMAIN sess \ {i} |-> sess[j]]
    /\ pc' = IF pc = "call" THEN ServePc(sess[i].kind) ELSE pc
    /\ UNCHANGED <<mgr, writing, stdin, pos, env, fs, stdout, respReq, stderr, result>>

----------------------------------------------------------------------------

Next ==
    \/ ServeEOF
    \/ ServeDecodeError
    \/ ServeInitFails
    \/ ServeInitOk
    \/ ServeTerminate
    \/ ServeOther
    \/ RetrieveClientError
    \/ RetrievePanics
    \/ RetrieveCreateError
    \/ RetrieveStarts
    \/ StoreClientError
    \/ StorePanics
    \/ StoreOpenError
    \/ StoreStarts
    \/ \E i \in DOMAIN sess : DownloadWriteAt(i)
    \/ \E i \in DOMAIN sess : DownloadRetryPart(i)
    \/ \E i \in DOMAIN sess : DownloadFails(i)
    \/ \E i \in DOMAIN sess : DownloadSucceeds(i)
    \/ \E i \in DOMAIN sess : UploadRead(i)
    \/ \E i \in DOMAIN sess : UploadFails(i)
    \/ \E i \in DOMAIN sess : UploadSucceeds(i)
    \/ \E i \in DOMAIN sess : OperationReturns(i)

Spec == Init /\ [][Next]_vars

----------------------------------------------------------------------------
(* Runs of two transfers in a row, on two objects, in a configured          *)
(* environment.  The second object has no cache file at the start: it can   *)
(* be uploaded only after it was downloaded.                                *)

OidB == <<"a", "b", "c", "d", "e", "g">>

TransferLines == {ReqLine(e, o, MaxSize) : e \in {"download", "upload"}, o \in {OidA, OidB}}

InitTwo ==
    /\ stdin \in {<<first, second>> : first \in TransferLines, second \in TransferLines}
    /\ pos = 0
    /\ pc = "scan"
    /\ env = {"AWS_S3_ENDPOINT", "S3_BUCKET"}
    /\ fs \in InitialFiles
    /\ stdout = <<>>
    /\ respReq = <<>>
    /\ stderr = <<>>
    /\ result = <<>>
    /\ sess = <<>>
    /\ mgr = NoManager
    /\ writing = <<>>

\* The steps of Next that such a run can take (no init, terminate, malformed
\* or unknown line, no oid too short for a path).
NextTwo ==
    \/ ServeEOF
    \/ RetrieveClientError
    \/ RetrieveCreateError
    \/ RetrieveStarts
    \/ StoreClientError
    \/ StoreOpenError
    \/ StoreStarts
    \/ \E i \in DOMAIN sess : DownloadWriteAt(i)
    \/ \E i \in DOMAIN sess : DownloadRetryPart(i)
    \/ \E i \in DOMAIN sess : DownloadFails(i)
    \/ \E i \in DOMAIN sess : DownloadSucceeds(i)
    \/ \E i \in DOMAIN sess : UploadRead(i)
    \/ \E i \in DOMAIN sess : UploadFails(i)
    \/ \E i \in DOMAIN sess : UploadSucceeds(i)
    \/ \E i \in DOMAIN sess : OperationReturns(i)

SpecTwo == InitTwo /\ [][NextTwo]_vars

----------------------------------------------------------------------------
(* Progress.  Serve is sequential code that keeps running: a step of its    *)
(* loop that can be taken is taken.  That a transfer call comes to an end   *)
(* (Download / Upload return, then the deferred calls run) is the           *)
(* assumption under which termination of Serve is stated.                   *)

ServeStep ==
    \/ ServeEOF
    \/ ServeDecodeError
    \/ ServeInitFails
    \/ ServeInitOk
    \/ ServeTerminate
    \/ ServeOther
    \/ RetrieveClientError
    \/ RetrievePanics
    \/ RetrieveCreateError
    \/ RetrieveStarts
    \/ StoreClientError
    \/ StorePanics
    \/ StoreOpenError
    \/ StoreStarts

TransferEnds ==
    \E i \in DOMAIN sess :
        DownloadFails(i) \/ DownloadSucceeds(i) \/ UploadFails(i) \/ UploadSucceeds(i)

TransferReturns == \E i \in DOMAIN sess : OperationReturns(i)

FairSpec ==
    /\ Spec
    /\ WF_vars(ServeStep)
    /\ WF_vars(TransferEnds)
    /\ WF_vars(TransferReturns)

----------------------------------------------------------------------------
(* The goroutines of one transfer.  The calling goroutine runs Serve,       *)
(* retrieve / store and the call of Download / Upload; the transfer manager *)
(* adds worker goroutines.  Here a call of the wrapper and the write of a   *)
(* line to stdout are steps with a beginning and an end, so that two        *)
(* goroutines can be inside them at once.  An object to download has P      *)
(* parts of PartLen bytes; a goroutine passes a part to WriteAt in one call. *)
(*                                                                          *)
(* Downloader (manager.Downloader.Download): the caller fetches the first   *)
(* part itself (getChunk), then starts Concurrency workers, queues the      *)
(* other parts for them and waits; a part whose copy failed is issued       *)
(* again; after an error no further part is started.  Uploader              *)
(* (manager.Uploader.Upload) with a body that is only an io.Reader: the     *)
(* caller reads the body into buffers of one part each (nextReader) and     *)
(* queues them; the workers send buffers and never touch the body; a body   *)
(* that ends within the first buffer is sent by the caller itself.          *)

Caller == 0

\* Mutation of DownloadWorkers: the downloader runs one worker more.
DownloadWorkersMore == 1..(Concurrency + 1)

DownloadWorkers == 1..Concurrency

UploadWorkers == 1..MaxUploadWorkers

Goroutines == {Caller} \cup DownloadWorkers \cup UploadWorkers

Workers(kind) == IF kind = "download" THEN DownloadWorkers ELSE UploadWorkers

\* The state of a Download / Upload call that has just been entered: the
\* caller holds the first part and is about to pass it through the wrapper.
Manager(kind, req, P) ==
    [kind |-> kind, Oid |-> req.Oid, path |-> LocalPath(req.Oid),
     parts |-> P,                     \* download: parts of the object
     next |-> 1,                      \* parts handed to a goroutine / buffers begun so far
     queued |-> 0,                    \* upload: buffers waiting for a worker
     cur |-> 0,                       \* upload: read position in the file
     filled |-> 0,                    \* upload: bytes in the buffer being filled
     eof |-> FALSE,                   \* upload: the body returned io.EOF
     failed |-> FALSE,                \* the manager has recorded an error
     bytesProcessed |-> TrackerStart(req),
     through |-> 0,                   \* history: bytes the underlying stream accepted / returned
     part |-> [g \in Goroutines |-> IF g = Caller THEN 1 ELSE 0],
     at |-> [g \in Goroutines |-> IF g = Caller THEN "call" ELSE "off"]]
     \* at[g]: "off" not started | "idle" between two jobs | "call" about to
     \* call the wrapper | "send" in api.SendProgress / SendResponse, the
     \* wrapper call will return nil | "senderr" the same, the call will
     \* return an error | "erred" the call returned an error | "put" sending
     \* a buffer | "wait" in wg.Wait()

Busy == mgr.kind /= "none"

\* The write of the lines (none or one) by goroutine g begins.
StartWriting(g, lines) ==
    writing' = IF lines = <<>> THEN writing
               ELSE [h \in DOMAIN writing \cup {g} |-> IF h = g THEN lines[1] ELSE writing[h]]

\* The write of g's line ends: the line is on stdout in full (ok), or the
\* write failed and nothing of it is.
EndWriting(g, ok) ==
    /\ Emit(IF ok THEN <<writing[g]>> ELSE <<>>, pos)
    /\ writing' = [h \in DOMAIN writing \ {g} |-> writing[h]]

\* A cache file large enough for an upload of several parts.
SinkInitialFiles == {<<>>} \cup {[p \in {LocalPath(OidA)} |-> Content(MaxParts * PartLen)]}

\* retrieve up to the call of downloader.Download: the client is built, the
\* file is created (or truncated); the object has P parts.
SinkRetrieveStarts ==
    /\ IsDownload
    /\ ~SlicePanics(NextReq.Oid)
    /\ \E P \in 1..MaxParts : mgr' = Manager("download", NextReq, P)
    /\ fs' = Created(LocalPath(NextReq.Oid))
    /\ pos' = pos + 1
    /\ Log(<<"Received download request">>)
    /\ pc' = PcAfterDispatch
    /\ UNCHANGED <<stdin, env, stdout, respReq, result, sess, writing>>

\* store up to the call of uploader.Upload: the client is built, the file
\* is there and opened.
SinkStoreStarts ==
    /\ IsUpload
    /\ ~SlicePanics(NextReq.Oid)
    /\ FileExists(LocalPath(NextReq.Oid))
    /\ mgr' = Manager("upload", NextReq, 0)
    /\ pos' = pos + 1
    /\ Log(<<"Received upload request">>)
    /\ pc' = PcAfterDispatch
    /\ UNCHANGED <<stdin, env, fs, stdout, respReq, result, sess, writing>>

\* Goroutine g calls progressWriter.WriteAt(p, off) with the bytes of its
\* part: file.Write takes n of them (n < PartLen comes with an error), the
\* counter advances and, when n > 0, api.SendProgress starts to write.
SinkWriteAt(g) ==
    /\ Busy
    /\ mgr.kind = "download"
    /\ mgr.at[g] = "call"
    /\ \E n \in 0..PartLen :
          LET off == (mgr.part[g] - 1) * PartLen
              p == [k \in 1..PartLen |-> off + k]
              err == IF n < PartLen THEN "error" ELSE "nil"
              ret == TrackerReturns(n, err)
          IN  /\ mgr.through + n <= MaxParts * PartLen
              /\ fs' = [fs EXCEPT ![mgr.path] = WriteAtFile(@, p, off, n)]
              /\ StartWriting(g, TrackerEmits(mgr.Oid, mgr.bytesProcessed, n))
              /\ mgr' = [mgr EXCEPT !.bytesProcessed = TrackerCount(@, n),
                                    !.through = @ + n,
                                    !.at[g] = IF n = 0 THEN "erred"
                                              ELSE IF ret.err = "nil" THEN "send"
                                              ELSE "senderr"]
    /\ UNCHANGED <<stdin, pos, pc, env, stdout, respReq, stderr, result, sess>>

\* The caller calls progressReader.Read(p) to fill its buffer: file.Read
\* returns n > 0 bytes, or (0, io.EOF) at the end of the file, or (0, err).
SinkRead ==
    /\ Busy
    /\ mgr.kind = "upload"
    /\ mgr.at[Caller] = "call"
    /\ LET left == Len(fs[mgr.path]) - mgr.cur
           room == PartLen - mgr.filled
       IN  \E n \in 0..(IF left < room THEN left ELSE room) : \E ioerr \in BOOLEAN :
              /\ ioerr => n = 0
              /\ (~ioerr /\ n = 0) => left = 0
              /\ LET err == IF ioerr THEN "error" ELSE IF n = 0 THEN "EOF" ELSE "nil"
                     ret == TrackerReturns(n, err)
                 IN  /\ StartWriting(Caller, TrackerEmits(mgr.Oid, mgr.bytesProcessed, n))
                     /\ mgr' = [mgr EXCEPT !.bytesProcessed = TrackerCount(@, n),
                                           !.through = @ + n,
                                           !.cur = @ + ret.n,
                                           !.filled = @ + ret.n,
                                           !.eof = (ret.err = "EOF"),
                                           !.at[Caller] = IF n > 0 THEN "send"
                                                          ELSE IF ret.err = "error" THEN "erred"
                                                          ELSE "idle"]
    /\ UNCHANGED <<stdin, pos, pc, env, fs, stdout, respReq, stderr, result, sess>>

\* The progress line of g is on stdout in full; the wrapper call returns.
\* A download part is done, or the call failed; an upload buffer that is not
\* full is read on.
SinkProgressWritten(g) ==
    /\ Busy
    /\ g \in DOMAIN writing
    /\ writing[g].event = "progress"
    /\ EndWriting(g, TRUE)
    /\ mgr' = [mgr EXCEPT !.at[g] = IF mgr.at[g] = "senderr" THEN "erred"
                                    ELSE IF mgr.kind = "upload" /\ mgr.filled < PartLen
                                    THEN "call" ELSE "idle"]
    /\ UNCHANGED <<stdin, pos, pc, env, fs, stderr, result, sess>>

\* Download: the copy of g's part failed in WriteAt; the part is issued
\* again from its start.
SinkRetryPart(g) ==
    /\ Busy
    /\ mgr.kind = "download"
    /\ mgr.at[g] = "erred"
    /\ mgr' = [mgr EXCEPT !.at[g] = "call"]
    /\ UNCHANGED <<stdin, pos, pc, env, fs, stdout, respReq, stderr, result, sess, writing>>

\* The job of g fails for good (the request to the store fails, or the
\* error of the wrapper call is final): the manager records the error.
SinkJobFails(g) ==
    /\ Busy
    /\ mgr.at[g] \in {"call", "erred"}
    /\ mgr' = [mgr EXCEPT !.failed = TRUE,
                          !.part[g] = 0,
                          !.at[g] = IF g = Caller /\ mgr.kind = "upload" THEN "wait" ELSE "idle"]
    /\ UNCHANGED <<stdin, pos, pc, env, fs, stdout, respReq, stderr, result, sess, writing>>

\* Download: the caller is through with the first part; it starts the
\* workers, queues the remaining parts and waits.
DownloadSpawns ==
    /\ Busy
    /\ mgr.kind = "download"
    /\ mgr.at[Caller] = "idle"
    /\ mgr' = [mgr EXCEPT !.at = [g \in Goroutines |->
                                     IF g = Caller THEN "wait"
                                     ELSE IF g \in DownloadWorkers THEN "idle" ELSE "off"]]
    /\ UNCHANGED <<stdin, pos, pc, env, fs, stdout, respReq, stderr, result, sess, writing>>

\* Download: worker g takes the next part from the channel.
DownloadWorkerTakes(g) ==
    /\ Busy
    /\ mgr.kind = "download"
    /\ g \in DownloadWorkers
    /\ mgr.at[g] = "idle"
    /\ ~mgr.failed
    /\ mgr.next < mgr.parts
    /\ mgr' = [mgr EXCEPT !.next = @ + 1, !.part[g] = mgr.next + 1, !.at[g] = "call"]
    /\ UNCHANGED <<stdin, pos, pc, env, fs, stdout, respReq, stderr, result, sess, writing>>

\* Upload: the caller's buffer is full, or the body is at its end.  A body
\* that ended within the first buffer is sent by the caller itself;
\* otherwise the buffer is queued (the workers are started with the first
\* one) and the caller fills the next buffer, or waits at the end.
UploadBuffers ==
    /\ Busy
    /\ mgr.kind = "upload"
    /\ mgr.at[Caller] = "idle"
    /\ LET single == mgr.eof /\ mgr.next = 1
           queue == ~single /\ mgr.filled > 0
       IN  mgr' = [mgr EXCEPT !.queued = IF queue THEN @ + 1 ELSE @,
                              !.filled = 0,
                              !.next = IF mgr.eof THEN @ ELSE @ + 1,
                              !.at = [g \in Goroutines |->
                                         IF g = Caller
                                         THEN (IF mgr.eof \/ mgr.failed THEN "wait" ELSE "call")
                                         ELSE IF g \in UploadWorkers /\ mgr.at[g] = "off" /\ ~single
                                         THEN "idle" ELSE mgr.at[g]]]
    /\ UNCHANGED <<stdin, pos, pc, env, fs, stdout, respReq, stderr, result, sess, writing>>

\* Upload: worker g takes a buffer and sends it to the store.
UploadWorkerTakes(g) ==
    /\ Busy
    /\ mgr.kind = "upload"
    /\ g \in UploadWorkers
    /\ mgr.at[g] = "idle"
    /\ mgr.queued > 0
    /\ mgr' = [mgr EXCEPT !.queued = @ - 1, !.at[g] = "put"]
    /\ UNCHANGED <<stdin, pos, pc, env, fs, stdout, respReq, stderr, result, sess, writing>>

\* Upload: the request of worker g has ended, well or not.
UploadWorkerPut(g) ==
    /\ Busy
    /\ mgr.at[g] = "put"
    /\ \E ok \in BOOLEAN :
          mgr' = [mgr EXCEPT !.failed = @ \/ ~ok, !.at[g] = "idle"]
    /\ UNCHANGED <<stdin, pos, pc, env, fs, stdout, respReq, stderr, result, sess, writing>>

\* The caller waits and no worker has a job: Download / Upload can return.
ManagerQuiet ==
    /\ Busy
    /\ mgr.at[Caller] = "wait"
    /\ \A g \in Workers(mgr.kind) : mgr.at[g] \in {"idle", "off"}

\* Nothing failed and nothing is left to do.
ManagerDone ==
    /\ ManagerQuiet
    /\ ~mgr.failed
    /\ mgr.kind = "download" => mgr.next = mgr.parts
    /\ mgr.kind = "upload" => (mgr.eof /\ mgr.queued = 0)

\* Download / Upload returns nil; retrieve / store starts to write `complete`.
ManagerReturns ==
    /\ ManagerDone
    /\ StartWriting(Caller, SendResponse(TransferResponse(mgr.Oid,
                               IF mgr.kind = "download" THEN mgr.path ELSE NoPath)))
    /\ mgr' = [mgr EXCEPT !.at[Caller] = "send"]
    /\ UNCHANGED <<stdin, pos, pc, env, fs, stdout, respReq, stderr, result, sess>>

\* Download / Upload returns an error (a job failed, or the store refused
\* the transfer): retrieve / store logs it and returns.
ManagerFails ==
    /\ ManagerQuiet
    /\ Log(<<IF mgr.kind = "download" THEN "Error downloading file"
                                      ELSE "Error uploading file">>)
    /\ mgr' = NoManager
    /\ pc' = ServePc(mgr.kind)
    /\ UNCHANGED <<stdin, pos, env, fs, stdout, respReq, result, sess, writing>>

\* The write of `complete` is over: the line is on stdout in full, or
\* api.SendResponse returned an error, which retrieve / store logs; the
\* operation returns either way.
SinkCompleteWritten ==
    /\ Busy
    /\ Caller \in DOMAIN writing
    /\ writing[Caller].event = "complete"
    /\ \E ok \in BOOLEAN :
          /\ EndWriting(Caller, ok)
          /\ Log(CompletionLog(ok))
    /\ mgr' = NoManager
    /\ pc' = ServePc(mgr.kind)
    /\ UNCHANGED <<stdin, pos, env, fs, result, sess>>

InitSink ==
    /\ stdin \in {<<ReqLine(e, OidA, MaxSize)>> : e \in {"download", "upload"}}
    /\ pos = 0
    /\ pc = "scan"
    /\ env = {"AWS_S3_ENDPOINT", "S3_BUCKET"}
    /\ fs \in SinkInitialFiles
    /\ stdout = <<>>
    /\ respReq = <<>>
    /\ stderr = <<>>
    /\ result = <<>>
    /\ sess = <<>>
    /\ mgr = NoManager
    /\ writing = <<>>

NextSink ==
    \/ ServeEOF
    \/ RetrieveClientError
    \/ RetrieveCreateError
    \/ SinkRetrieveStarts
    \/ StoreClientError
    \/ StoreOpenError
    \/ SinkStoreStarts
    \/ \E g \in Goroutines : SinkWriteAt(g)
    \/ SinkRead
    \/ \E g \in Goroutines : SinkProgressWritten(g)
    \/ \E g \in Goroutines : SinkRetryPart(g)
    \/ \E g \in Goroutines : SinkJobFails(g)
    \/ DownloadSpawns
    \/ \E g \in Goroutines : DownloadWorkerTakes(g)
    \/ UploadBuffers
    \/ \E g \in Goroutines : UploadWorkerTakes(g)
    \/ \E g \in Goroutines : UploadWorkerPut(g)
    \/ ManagerReturns
    \/ ManagerFails
    \/ SinkCompleteWritten

SpecSink == InitSink /\ [][NextSink]_vars

----------------------------------------------------------------------------
(* Vocabulary of the properties *)

\* Positions on stdout of the lines written for request i.
LinesOf(i) == {k \in 1..Len(stdout) : respReq[k] = i}
CompletesOf(i) == {k \in LinesOf(i) : stdout[k].event = "complete"}
ProgressOf(i) == {k \in LinesOf(i) : stdout[k].event = "progress"}

Last(S) == CHOOSE k \in S : \A j \in S : j <= k

RECURSIVE SumSinceLast(_)
SumSinceLast(S) ==
    IF S = {} THEN 0
    ELSE LET k == CHOOSE x \in S : TRUE
         IN  stdout[k].bytesSinceLast + SumSinceLast(S \ {k})

\* The operation of request i has returned to Serve.
Returned(i) == i \in DOMAIN result /\ i \notin DOMAIN sess /\ result[i].outcome /= "panic"

Failures == {"client", "file", "storage"}

ErrorMessages ==
    {"Error creating client", "Error creating file", "Error opening file",
     "Error downloading file", "Error uploading file"}

AllConfigured == {"AWS_S3_ENDPOINT", "S3_BUCKET"} \subseteq env

\* The next line is a well-formed request with event e.
NextIs(e) == CanScan /\ stdin[pos + 1].wellformed /\ stdin[pos + 1].event = e

\* The line Serve handled last.
LastLine == stdin[pos]

\* Serve is over: nothing more is read, dispatched or written.
Quiet == pos' = pos /\ stdout' = stdout /\ sess' = sess /\ pc' = pc

\* The line handled last was an init that found a required variable missing.
InitHasFailed ==
    /\ pos >= 1
    /\ LastLine.wellformed /\ LastLine.event = "init"
    /\ ~AllConfigured

\* The line handled last did not decode.
DecodeHasFailed == pos >= 1 /\ ~LastLine.wellformed

\* The line handled last was a terminate request.
HasTerminated == pos >= 1 /\ LastLine.wellformed /\ LastLine.event = "terminate"

KnownEvents == {"init", "download", "upload", "terminate"}

\* No line of the input is a terminate request.
NoTerminate == \A k \in DOMAIN stdin : ~(stdin[k].wellformed /\ stdin[k].event = "terminate")

\* The scanner takes every line of the input.
EveryLineScans == \A k \in DOMAIN stdin : stdin[k].scans

\* No line of the input is one on which Serve returns by its own rules:
\* every line decodes, and no init finds a required variable missing.
NoStoppingLine ==
    \A k \in DOMAIN stdin :
        /\ stdin[k].wellformed
        /\ stdin[k].event = "init" => AllConfigured

\* Serve has returned with every line of the input handled.
ReturnedAtEnd == pc = "returned" /\ pos = Len(stdin)

\* This step is one Read or WriteAt call on the progressTracker of request i.
WrapperCall(i) == DownloadWriteAt(i) \/ UploadRead(i)

\* What the caller of the wrapper saw of the error the call returned.
SeenError(s) == IF s.failed THEN "error" ELSE IF s.eof THEN "EOF" ELSE "nil"

----------------------------------------------------------------------------
(* C1. A successful download of an object of S bytes leaves, when retrieve  *)
(* has returned, the file <root>/X[0:2]/X[2:4]/X with exactly S bytes, and  *)
(* exactly one `complete` line with oid X and that path, after every        *)
(* progress line of the transfer.  (The claim as stated; the code violates  *)
(* it when the downloader re-issues a part: WriteAt ignores the offset.)    *)

C1_DownloadLeavesExactFile ==
    \A i \in DOMAIN result :
        (Returned(i) /\ pos = i /\ result[i].outcome = "ok" /\ result[i].kind = "download") =>
            LET path == LocalPath(result[i].Oid)
            IN  /\ FileExists(path)
                /\ Len(fs[path]) = result[i].remote
                /\ Cardinality(CompletesOf(i)) = 1
                /\ \A k \in CompletesOf(i) :
                      /\ stdout[k].oid = result[i].Oid
                      /\ stdout[k].path = path
                      /\ \A j \in ProgressOf(i) : j < k

----------------------------------------------------------------------------
(* C2. For every successful transfer, the bytesSinceLast of its progress    *)
(* lines add up to the N bytes that passed through the wrapper, and its     *)
(* last progress line has bytesSoFar = N.                                   *)

C2_ProgressAddsUp ==
    \A i \in DOMAIN result :
        result[i].outcome = "ok" =>
            /\ SumSinceLast(ProgressOf(i)) = result[i].through
            /\ ProgressOf(i) /= {} => stdout[Last(ProgressOf(i))].bytesSoFar = result[i].through

\* A successful transfer whose bytes passed in at least two chunks.
C2_Witness ==
    \E i \in DOMAIN result :
        /\ result[i].outcome = "ok"
        /\ Cardinality(ProgressOf(i)) >= 2
        /\ result[i].through >= 2

----------------------------------------------------------------------------
(* C3. Every dispatched download or upload, whatever its outcome, gets      *)
(* exactly one `complete` line for its oid, and that line is the last line  *)
(* written for the request.  (The claim as stated; the code writes no       *)
(* `complete` line when the operation fails.)                               *)

C3_AlwaysOneComplete ==
    \A i \in DOMAIN result :
        Returned(i) =>
            /\ Cardinality(CompletesOf(i)) = 1
            /\ \A k \in CompletesOf(i) :
                  stdout[k].oid = result[i].Oid /\ k = Last(LinesOf(i))

----------------------------------------------------------------------------
(* C4. A transfer operation that fails (client construction, local file,    *)
(* storage transfer) writes no `complete` line and no other response line   *)
(* from the point of failure on; it writes a diagnostic line.               *)

C4_FailureIsSilent ==
    \A i \in DOMAIN result :
        result[i].outcome \in Failures =>
            /\ CompletesOf(i) = {}
            /\ \A k \in LinesOf(i) : k <= result[i].outLen
            /\ Len(stderr) > result[i].errLen
            /\ stderr[result[i].errLen + 1] \in ErrorMessages

\* A transfer that failed after progress was reported, and has returned.
C4_Witness ==
    \E i \in DOMAIN result :
        /\ Returned(i)
        /\ result[i].outcome = "storage"
        /\ ProgressOf(i) /= {}

----------------------------------------------------------------------------
(* C5. An `init` request handled with endpoint and bucket configured        *)
(* writes exactly one InitResponse without error, and Serve stays in its    *)
(* loop, ready for the next line.                                           *)

C5_InitSucceeds ==
    [][(NextIs("init") /\ AllConfigured) =>
          /\ stdout' = Append(stdout, InitResponse(NoError))
          /\ pos' = pos + 1
          /\ pc' = "scan"]_vars

\* A successful init was answered and the line after it was handled too.
C5_Witness ==
    /\ pos >= 2
    /\ stdin[1].wellformed /\ stdin[1].event = "init"
    /\ stdout /= <<>>
    /\ stdout[1] = InitResponse(NoError)

----------------------------------------------------------------------------
(* C6. An `init` request handled with a required variable missing writes    *)
(* exactly one InitResponse with error code 1 and Serve returns: afterwards *)
(* no line is read or dispatched and nothing more is written.               *)

C6_InitFailureStops ==
    [][/\ (NextIs("init") /\ ~AllConfigured) =>
             /\ stdout' = Append(stdout, InitResponse(ErrorCode(1)))
             /\ pos' = pos + 1
             /\ pc' = "returned"
       /\ InitHasFailed => Quiet]_vars

\* Serve has returned after a failed init with input lines left unread.
C6_Witness ==
    /\ InitHasFailed
    /\ pc = "returned"
    /\ pos < Len(stdin)
    /\ stdout[Len(stdout)] = InitResponse(ErrorCode(1))

----------------------------------------------------------------------------
(* C7. Requests are handled one after the other: no line is read while a    *)
(* transfer operation is running, at most one operation runs at a time, and *)
(* the response lines appear in the order of their requests.                *)

C7_OneAtATime ==
    /\ Cardinality(DOMAIN sess) <= 1
    /\ sess /= <<>> => pc = "call" /\ DOMAIN sess = {pos}
    /\ \A k \in 1..(Len(respReq) - 1) : respReq[k] <= respReq[k + 1]

\* C7: in every state C7_OneAtATime holds, and the read position moves only
\* while no transfer operation is running.
C7_Sequential ==
    /\ []C7_OneAtATime
    /\ [][pos' /= pos => sess = <<>>]_vars

\* Two requests were answered, the second one a transfer reporting progress.
C7_Witness ==
    /\ pos = 2
    /\ LinesOf(1) /= {}
    /\ ProgressOf(2) /= {}
    /\ Returned(2)

----------------------------------------------------------------------------
(* C8. A line that does not decode stops Serve: no response line is written *)
(* for it, and afterwards no line is read, dispatched or answered.          *)

C8_DecodeErrorStops ==
    [][/\ (CanScan /\ ~stdin[pos + 1].wellformed) =>
             /\ stdout' = stdout
             /\ pos' = pos + 1
             /\ pc' = "returned"
       /\ DecodeHasFailed => Quiet]_vars

\* Serve has returned on a malformed line that followed an answered request,
\* with input lines left unread.
C8_Witness ==
    /\ DecodeHasFailed
    /\ pc = "returned"
    /\ LinesOf(pos) = {}
    /\ pos < Len(stdin) \/ stdout /= <<>>

----------------------------------------------------------------------------
(* C9. A `terminate` request ends the loop and Serve returns normally: no   *)
(* response line is written for it and no later line is read or dispatched. *)

C9_TerminateStops ==
    [][/\ NextIs("terminate") =>
             /\ stdout' = stdout
             /\ pos' = pos + 1
             /\ pc' = "returned"
       /\ HasTerminated => Quiet]_vars

\* Serve has returned on terminate with input lines left unread.
C9_Witness ==
    /\ HasTerminated
    /\ pc = "returned"
    /\ LinesOf(pos) = {}
    /\ pos < Len(stdin)

----------------------------------------------------------------------------
(* C10. A well-formed request whose event is none of init, download,        *)
(* upload, terminate writes nothing, starts no transfer, changes nothing    *)
(* but the read position, and the loop goes on with the next line.          *)

C10_OtherEventIgnored ==
    [][(CanScan /\ stdin[pos + 1].wellformed /\ stdin[pos + 1].event \notin KnownEvents) =>
          /\ pos' = pos + 1
          /\ pc' = "scan"
          /\ UNCHANGED <<stdout, respReq, stderr, sess, result, fs, env>>]_vars

\* A request with an unknown event was skipped and the next line answered.
C10_Witness ==
    /\ pos = 2
    /\ stdin[1].wellformed /\ stdin[1].event \notin KnownEvents
    /\ LinesOf(1) = {}
    /\ LinesOf(2) /= {}

----------------------------------------------------------------------------
(* C11. An upload request whose cache file <root>/X[0:2]/X[2:4]/X is absent *)
(* writes no `complete` and no progress line (nothing at all), starts no    *)
(* upload, and Serve goes on with the next line of input.                   *)

C11_AbsentFileUploadSkipped ==
    [][(NextIs("upload")
          /\ ~SlicePanics(stdin[pos + 1].oid)
          /\ LocalPath(stdin[pos + 1].oid) \notin DOMAIN fs) =>
             /\ stdout' = stdout
             /\ sess' = sess
             /\ fs' = fs
             /\ pos' = pos + 1
             /\ pc' = "scan"]_vars

\* os.Open failed for the upload of line 1, nothing was written for it, and
\* Serve has handled the line after it.
C11_Witness ==
    /\ pos = 2
    /\ 1 \in DOMAIN result
    /\ result[1].kind = "upload" /\ result[1].outcome = "file"
    /\ LinesOf(1) = {}
    /\ 1 \notin DOMAIN sess

----------------------------------------------------------------------------
(* C12. Serve is a state machine AwaitingInit -> Ready -> Terminated, and a *)
(* transfer is dispatched only in Ready: every transfer that was started    *)
(* follows an earlier init request that succeeded.  (The claim as stated;   *)
(* the switch of Serve keeps no such state and dispatches a download or an  *)
(* upload whatever came before it.)                                         *)

C12_TransferOnlyWhenReady ==
    \A i \in DOMAIN sess :
        \E j \in 1..(i - 1) :
            /\ stdin[j].wellformed
            /\ stdin[j].event = "init"
            /\ AllConfigured

----------------------------------------------------------------------------
(* C13. A Read or WriteAt call on the wrapper whose underlying call returns *)
(* an error (also one that returns n > 0 bytes with the error) returns that *)
(* error unchanged and writes no progress line.  (The claim as stated; the  *)
(* code sends progress whenever n > 0, before it looks at the error.)       *)

C13_NoProgressOnError ==
    [][\A i \in DOMAIN sess :
          (WrapperCall(i) /\ sess'[i].uerr /= "nil") =>
              /\ SeenError(sess'[i]) = sess'[i].uerr
              /\ stdout' = stdout]_vars

----------------------------------------------------------------------------
(* C14. On a successful download the cache file is synced and closed before *)
(* `complete` is written: whenever the `complete` line of a download is on  *)
(* stdout, the deferred Sync/Close of its file has run.  (The claim as      *)
(* stated; in the code Sync and Close are deferred to the return of         *)
(* retrieve, which comes after api.SendResponse.)                           *)

C14_ClosedBeforeComplete ==
    \A k \in DOMAIN stdout :
        (stdout[k].event = "complete" /\ stdin[respReq[k]].event = "download") =>
            respReq[k] \notin DOMAIN sess

----------------------------------------------------------------------------
(* C15. A download dispatched while the bucket name or the endpoint is      *)
(* absent fails at its first step with a configuration error: the cache     *)
(* file is not created or truncated, no storage download is started and     *)
(* nothing is written to stdout.  (The claim as stated, for an oid that has *)
(* a cache path; createS3Client and retrieve never look at the two          *)
(* variables, only init does.)                                              *)

C15_UnconfiguredDownloadFailsFirst ==
    [][(NextIs("download") /\ ~SlicePanics(stdin[pos + 1].oid) /\ ~AllConfigured) =>
          /\ fs' = fs
          /\ sess' = sess
          /\ stdout' = stdout]_vars

----------------------------------------------------------------------------
(* C17. The wrapper is transparent: a Read or WriteAt call hands back the   *)
(* byte count n and the error of the underlying call and passes the bytes   *)
(* on as they are; with n = 0 the running total stays and no line is        *)
(* written; with n > 0 the total grows by n and exactly one progress line   *)
(* with the new total and n is written.                                     *)

C17_WrapperTransparent ==
    [][\A i \in DOMAIN sess :
          WrapperCall(i) =>
              LET s == sess[i]
                  t == sess'[i]
                  n == t.through - s.through
              IN  /\ t.cur - s.cur = n
                  /\ SeenError(t) = t.uerr
                  /\ s.kind = "download" =>
                        fs'[s.path] = fs[s.path] \o [k \in 1..n |-> s.cur + k]
                  /\ s.kind = "upload" => fs' = fs
                  /\ (n = 0) =>
                        (t.bytesProcessed = s.bytesProcessed /\ stdout' = stdout)
                  /\ (n > 0) =>
                        /\ t.bytesProcessed = s.bytesProcessed + n
                        /\ stdout' = Append(stdout, ProgressResponse(s.Oid, t.bytesProcessed, n))]_vars

\* A WriteAt call that took bytes and failed has returned its error to the
\* downloader after writing its one progress line; an earlier call of the
\* same transfer had passed bytes without error.
C17_Witness ==
    \E i \in DOMAIN sess :
        /\ sess[i].phase = "transfer"
        /\ sess[i].uerr = "error" /\ sess[i].failed
        /\ Cardinality(ProgressOf(i)) >= 2
        /\ stdout[Len(stdout)] =
              ProgressResponse(sess[i].Oid, sess[i].bytesProcessed,
                               stdout[Len(stdout)].bytesSinceLast)

----------------------------------------------------------------------------
(* C18. The running counter belongs to one transfer: over a sequence of     *)
(* transfers every progress line carries the oid of the request it was      *)
(* written for, its bytesSoFar is the sum of the bytesSinceLast of the      *)
(* progress lines written so far for that request (the first one has        *)
(* bytesSoFar = bytesSinceLast, nothing is carried over from an earlier     *)
(* transfer), and bytesSoFar grows strictly within a request.               *)

C18_CounterPerTransfer ==
    \A k \in DOMAIN stdout :
        stdout[k].event = "progress" =>
            LET i == respReq[k]
                sofar == {j \in ProgressOf(i) : j <= k}
            IN  /\ i \in DOMAIN sess \/ i \in DOMAIN result
                /\ stdout[k].oid = stdin[i].oid
                /\ stdout[k].bytesSoFar = SumSinceLast(sofar)
                /\ sofar = {k} => stdout[k].bytesSoFar = stdout[k].bytesSinceLast
                /\ \A j \in sofar \ {k} : stdout[j].bytesSoFar < stdout[k].bytesSoFar

\* Two transfers of different objects have both reported progress, the first
\* in at least two lines, and the second one's first line starts from zero.
C18_Witness ==
    /\ pos = 2
    /\ stdin[1].oid /= stdin[2].oid
    /\ Cardinality(ProgressOf(1)) >= 2
    /\ ProgressOf(2) /= {}
    /\ \E k \in ProgressOf(2) :
          /\ \A j \in ProgressOf(2) : k <= j
          /\ stdout[k].bytesSoFar = stdout[k].bytesSinceLast
          /\ stdout[k].oid = stdin[2].oid

----------------------------------------------------------------------------
(* C19. Whatever well-formed requests arrive, also a download or an upload  *)
(* whose oid is missing, empty or shorter than 4 characters, Serve ends     *)
(* only by returning: it never aborts while it computes the cache path.     *)
(* (The claim as stated; oid[:2] and oid[2:4] panic on such an oid.)        *)

C19_NeverAborts == pc /= "panicked"

----------------------------------------------------------------------------
(* C20. If the input ends without a terminate request (and no line is one   *)
(* on which Serve stops by its own rules: a line that does not decode, an   *)
(* init that fails), Serve returns only after it has handled every line.    *)
(* (The claim as stated, read in its favour; the code also returns, without *)
(* a word, at a line the scanner gives up on, and leaves it and the lines   *)
(* after it unhandled.)                                                     *)

C20_ReturnsOnlyAtEnd ==
    (pc = "returned" /\ NoTerminate /\ NoStoppingLine) => pos = Len(stdin)

(* What does hold, under FairSpec: if moreover the scanner takes every      *)
(* line, and every dispatched transfer operation returns, Serve eventually  *)
(* returns with every line handled, one after the other in input order, and *)
(* the end of input writes no line.                                         *)

EndOfInputReturns ==
    /\ [][/\ pos' \in {pos, pos + 1}
          /\ (pc = "scan" /\ ~CanScan) =>
                (pc' = "returned" /\ pos' = pos /\ stdout' = stdout /\ sess' = sess)]_vars
    /\ (NoTerminate /\ NoStoppingLine /\ EveryLineScans) =>
          <>(ReturnedAtEnd \/ pc = "panicked")

----------------------------------------------------------------------------
(* C16. Writes to stdout are serialized: at no time are two lines (two      *)
(* progress lines, or a progress line and `complete`) being written, also   *)
(* when the transfer manager calls the wrapper from its worker goroutines   *)
(* (download with Concurrency = 1, upload with the default concurrency).    *)

C16_SinkSerialized == Cardinality(DOMAIN writing) <= 1

\* A worker goroutine of the downloader is writing a progress line, after
\* the caller wrote the line of the first part.
C16_Witness ==
    /\ mgr.kind = "download"
    /\ \E g \in DOMAIN writing : g /= Caller /\ writing[g].event = "progress"
    /\ stdout /= <<>>

====
